---- MODULE Spec2Model ----
(***************************************************************************)
(* A model of generate.py: the Snapchat memories downloader.               *)
(*                                                                         *)
(* main() runs three stages in sequence: load_memories (normalise the      *)
(* "Saved Media" list of the export), download_media_files (fetch every    *)
(* record, unwrap ZIP responses, write the media files) and                *)
(* group_by_year_month + build_html (the gallery).                         *)
(*                                                                         *)
(* A Python str is a sequence of one-character strings, a bytes object a   *)
(* sequence of integers 0..255, None the value None below.  The standard   *)
(* output is not modelled: print() changes nothing the program reads.      *)
(***************************************************************************)
EXTENDS Integers, Sequences, FiniteSets, TLC

(***************************************************************************)
(* Python values and the str methods the program calls.                    *)
(***************************************************************************)

\* None: a value no str equals (a str holds one-character strings only).
None == <<"None">>

\* Python truthiness of a str-or-None value: None and "" are false.
Truthy(v) == v /= None /\ v /= <<>>

\* a or b
Or(a, b) == IF Truthy(a) THEN a ELSE b

UpperCase == <<"A","B","C","D","E","F","G","H","I","J","K","L","M",
               "N","O","P","Q","R","S","<<",">>U","V","W","X","Y","Z">>
LowerCase == <<"a","b","c","d","e","f","g","h","i","j","k","l","m",
               "n","o","p","q","r","s","t","u","v","w","x","y","z">>

LowerChar(c) ==
    IF \E k \in DOMAIN UpperCase : UpperCase[k] = c
    THEN LowerCase[CHOOSE k \in DOMAIN UpperCase : UpperCase[k] = c]
    ELSE c

\* s.lower()
Lower(s) == [k \in 1..Len(s) |-> LowerChar(s[k])]

\* s[i:i+n] == p
MatchAt(s, i, p) == i + Len(p) - 1 <= Len(s) /\ SubSeq(s, i, i + Len(p) - 1) = p

\* sub in s
Contains(s, sub) == \E i \in 1..(Len(s) + 1) : MatchAt(s, i, sub)

\* s.endswith(suf)
EndsWith(s, suf) == Len(suf) <= Len(s) /\ MatchAt(s, Len(s) - Len(suf) + 1, suf)

\* s.replace(old, new), old not empty: the occurrences of old, left to right,
\* none overlapping another.
RECURSIVE ReplaceFrom(_, _, _, _)
ReplaceFrom(s, i, old, new) ==
    IF i > Len(s) THEN <<>>
    ELSE IF MatchAt(s, i, old) THEN new \o ReplaceFrom(s, i + Len(old), old, new)
    ELSE <<s[i]>> \o ReplaceFrom(s, i + 1, old, new)

Replace(s, old, new) == ReplaceFrom(s, 1, old, new)

DigitChars == <<"0","1","2","3","4","5","6","7","8","9">>

IsDigit(c) == \E k \in DOMAIN DigitChars : DigitChars[k] = c

DigitVal(c) == (CHOOSE k \in DOMAIN DigitChars : DigitChars[k] = c) - 1

\* The n characters of s from position i are digits.
DigitsAt(s, i, n) == i + n - 1 <= Len(s) /\ \A k \in i..(i + n - 1) : IsDigit(s[k])

\* int(s[i:i+n])
RECURSIVE NumAt(_, _, _)
NumAt(s, i, n) ==
    IF n = 0 THEN 0 ELSE NumAt(s, i, n - 1) * 10 + DigitVal(s[i + n - 1])

RECURSIVE DecDigits(_)
DecDigits(n) ==
    IF n < 10 THEN <<DigitChars[n + 1]>>
    ELSE DecDigits(n \div 10) \o <<DigitChars[(n % 10) + 1]>>

RECURSIVE Zeros(_)
Zeros(k) == IF k <= 0 THEN <<>> ELSE <<"0">> \o Zeros(k - 1)

\* f"{n}" of an int n >= 0
Dec(n) == DecDigits(n)

\* f"{n:0wd}" of an int n >= 0: at least w digits, zero-filled on the left.
ZeroPad(n, w) == Zeros(w - Len(DecDigits(n))) \o DecDigits(n)

(***************************************************************************)
(* datetime: strptime, strftime and the ordering of datetime objects.      *)
(***************************************************************************)

\* calendar.month_name[1..12], also the names %B reads and writes.
month_name == <<<<"J","a","n","u","a","r","y">>, <<"F","e","b","r","u","a","r","y">>, <<"M","a","r","c","h">>, <<"A","p","r","i","l">>, <<"M","a","y">>, <<"J","u","n","e">>,
                <<"J","u","l","y">>, <<"A","u","g","u","s","t">>, <<"S","e","p","t","e","m","b","e","r">>, <<"O","c","t","o","b","e","r">>, <<"N","o","v","e","m","b","e","r">>,
                <<"D","e","c","e","m","b","e","r">>>>

\* The zone names %Z would read: UTC, GMT (and the local zone, UTC here).
TzNames == {<<"u","t","c">>, <<"g","m","t">>}

IsLeap(y) == (y % 4 = 0 /\ y % 100 /= 0) \/ y % 400 = 0

DaysIn(y, m) ==
    IF m = 2 THEN (IF IsLeap(y) THEN 29 ELSE 28)
    ELSE IF m \in {4, 6, 9, 11} THEN 30 ELSE 31

\* A failed parse (strptime raising ValueError), and the fields strptime
\* starts from: 1900-01-01 00:00:00.
NoDate == [ok |-> FALSE, year |-> 0, month |-> 0, day |-> 0,
           hour |-> 0, minute |-> 0, second |-> 0]
DefaultDate == [ok |-> TRUE, year |-> 1900, month |-> 1, day |-> 1,
                hour |-> 0, minute |-> 0, second |-> 0]

\* The values a numeric directive accepts.
DirectiveAccepts(dir, v) ==
    CASE dir = "m" -> v >= 1 /\ v <= 12
      [] dir = "d" -> v >= 1 /\ v <= 31
      [] dir = "H" -> v <= 23
      [] dir = "M" -> v <= 59
      [] dir = "S" -> v <= 59
      [] OTHER -> FALSE

SetField(acc, dir, v) ==
    CASE dir = "m" -> [acc EXCEPT !.month = v]
      [] dir = "d" -> [acc EXCEPT !.day = v]
      [] dir = "H" -> [acc EXCEPT !.hour = v]
      [] dir = "M" -> [acc EXCEPT !.minute = v]
      [] dir = "S" -> [acc EXCEPT !.second = v]
      [] OTHER -> acc

\* The number of spaces of s from position i on.
RECURSIVE SpacesAt(_, _)
SpacesAt(s, i) == IF i <= Len(s) /\ s[i] = " " THEN 1 + SpacesAt(s, i + 1) ELSE 0

\* strptime's match of s from position i against the format f from position
\* j: %Y is four digits; %m %d %H %M %S are two digits, or one; %B is a month
\* name and %Z a zone name, in any case; white space in the format is one or
\* more spaces; any other character is itself, in any case.  All of s must be
\* read.
RECURSIVE Scan(_, _, _, _, _)
Scan(s, i, f, j, acc) ==
    IF j > Len(f) THEN (IF i > Len(s) THEN acc ELSE NoDate)
    ELSE IF f[j] = "%" /\ j < Len(f) THEN
        LET dir == f[j + 1] IN
        CASE dir = "Y" ->
                IF DigitsAt(s, i, 4)
                THEN Scan(s, i + 4, f, j + 2, [acc EXCEPT !.year = NumAt(s, i, 4)])
                ELSE NoDate
          [] dir \in {"m", "d", "H", "M", "S"} ->
                LET two == IF DigitsAt(s, i, 2) /\ DirectiveAccepts(dir, NumAt(s, i, 2))
                           THEN Scan(s, i + 2, f, j + 2, SetField(acc, dir, NumAt(s, i, 2)))
                           ELSE NoDate
                IN  IF two.ok THEN two
                    ELSE IF DigitsAt(s, i, 1) /\ DirectiveAccepts(dir, NumAt(s, i, 1))
                    THEN Scan(s, i + 1, f, j + 2, SetField(acc, dir, NumAt(s, i, 1)))
                    ELSE NoDate
          [] dir = "B" ->
                IF \E k \in DOMAIN month_name :
                        i + Len(month_name[k]) - 1 <= Len(s)
                        /\ Lower(SubSeq(s, i, i + Len(month_name[k]) - 1)) = Lower(month_name[k])
                THEN LET k == CHOOSE k \in DOMAIN month_name :
                                i + Len(month_name[k]) - 1 <= Len(s)
                                /\ Lower(SubSeq(s, i, i + Len(month_name[k]) - 1))
                                     = Lower(month_name[k])
                     IN  Scan(s, i + Len(month_name[k]), f, j + 2, [acc EXCEPT !.month = k])
                ELSE NoDate
          [] dir = "Z" ->
                IF \E z \in TzNames : i + Len(z) - 1 <= Len(s)
                                      /\ Lower(SubSeq(s, i, i + Len(z) - 1)) = z
                THEN LET z == CHOOSE z \in TzNames : i + Len(z) - 1 <= Len(s)
                                      /\ Lower(SubSeq(s, i, i + Len(z) - 1)) = z
                     IN  Scan(s, i + Len(z), f, j + 2, acc)
                ELSE NoDate
          [] OTHER -> NoDate
    ELSE IF f[j] = " " THEN
        IF SpacesAt(s, i) >= 1 THEN Scan(s, i + SpacesAt(s, i), f, j + 1, acc) ELSE NoDate
    ELSE IF i <= Len(s) /\ LowerChar(s[i]) = LowerChar(f[j])
         THEN Scan(s, i + 1, f, j + 1, acc)
         ELSE NoDate

\* datetime.strptime(s, f): the datetime, or NoDate where it raises ValueError
\* (no match, or a day the month does not have).
strptime(s, f) ==
    LET r == Scan(s, 1, f, 1, DefaultDate)
    IN  IF r.ok /\ r.year >= 1 /\ r.day <= DaysIn(r.year, r.month) THEN r ELSE NoDate

\* dt.strftime("%Y%m%d_%H%M%S")
StrftimeStamp(dt) ==
    ZeroPad(dt.year, 4) \o ZeroPad(dt.month, 2) \o ZeroPad(dt.day, 2) \o <<"_">>
    \o ZeroPad(dt.hour, 2) \o ZeroPad(dt.minute, 2) \o ZeroPad(dt.second, 2)

\* dt.strftime("%B %d, %Y")
StrftimeLabel(dt) ==
    month_name[dt.month] \o <<" ">> \o ZeroPad(dt.day, 2) \o <<","," ">> \o ZeroPad(dt.year, 4)

\* The sort key of a datetime: a < b.
DtKey(dt) == <<dt.year, dt.month, dt.day, dt.hour, dt.minute, dt.second>>

RECURSIVE TupleLess(_, _, _)
TupleLess(a, b, k) ==
    IF k > Len(a) THEN FALSE
    ELSE IF a[k] /= b[k] THEN a[k] < b[k]
    ELSE TupleLess(a, b, k + 1)

DtLess(a, b) == TupleLess(DtKey(a), DtKey(b), 1)

(***************************************************************************)
(* load_memories                                                           *)
(***************************************************************************)

\* One object of "Saved Media": the keys the program reads, each a str or
\* None (the key absent, what item.get returns then).
ItemKeys == {"Date", "date", "Media Type", "media_type", "Location", "location",
             "Media Download Url", "Media Download URL", "media_download_url",
             "Download Link", "download_link"}

\* The formats tried, in order.
DateFormats == <<<<"%","Y","-","%","m","-","%","d"," ","%","H",":","%","M",":","%","S"," ","%","Z">>, <<"%","Y","-","%","m","-","%","d"," ","%","H",":","%","M",":","%","S">>, <<"%","B"," ","%","d",","," ","%","Y">>>>

\* The for fmt loop: the first format that parses, " UTC" taken out of the
\* date and " %Z" out of the format before every try.
RECURSIVE TryFormats(_, _)
TryFormats(date_str, k) ==
    IF k > Len(DateFormats) THEN NoDate
    ELSE LET dt == strptime(Replace(date_str, <<" ","U","T","C">>, <<>>),
                            Replace(DateFormats[k], <<" ","%","Z">>, <<>>))
         IN  IF dt.ok THEN dt ELSE TryFormats(date_str, k + 1)

ParseDate(date_str) == TryFormats(date_str, 1)

\* ItemDate reading the key "Date" alone: a fault C8 detects.
ItemDateOneSpelling(item) == item["Date"]

ItemDate(item) == Or(item["Date"], item["date"])

ItemMediaType(item) == Or(Or(item["Media Type"], item["media_type"]), <<>>)

ItemLocation(item) == Or(Or(item["Location"], item["location"]), <<>>)

ItemDownloadLink(item) ==
    LET media_download_url ==
            Or(Or(item["Media Download Url"], item["Media Download URL"]),
               item["media_download_url"])
        wrapper_link == Or(item["Download Link"], item["download_link"])
    IN  Or(media_download_url, wrapper_link)

\* The item is appended to normalized (otherwise: continue).
ItemKept(item) ==
    /\ Truthy(ItemDate(item))
    /\ Truthy(ItemDownloadLink(item))
    /\ ParseDate(ItemDate(item)).ok

DateOf(dt) == [year |-> dt.year, month |-> dt.month, day |-> dt.day,
               hour |-> dt.hour, minute |-> dt.minute, second |-> dt.second]

NormalizedItem(item) ==
    [datetime   |-> DateOf(ParseDate(ItemDate(item))),
     date_str   |-> ItemDate(item),
     media_type |-> ItemMediaType(item),
     location   |-> ItemLocation(item),
     url        |-> ItemDownloadLink(item)]

(***************************************************************************)
(* download_media_files                                                    *)
(***************************************************************************)

\* if (idx + 1) % 20 == 0: the progress line.
ProgressEvery == 20

\* The ZIP magic number b'PK\x03\x04'.
ZipMagic == <<80, 75, 3, 4>>

\* Extension with the URL read before the media type: a fault C5 detects.
ExtensionUrlFirst(media_type, url) ==
    LET url_lower == Lower(url) IN
    IF Contains(url_lower, <<".","m","p","4">>) THEN <<"m","p","4">>
    ELSE IF Contains(url_lower, <<".","m","o","v">>) THEN <<"m","o","v">>
    ELSE IF Contains(url_lower, <<".","j","p","g">>) \/ Contains(url_lower, <<".","j","p","e","g">>) THEN <<"j","p","g">>
    ELSE IF Contains(url_lower, <<".","p","n","g">>) THEN <<"p","n","g">>
    ELSE IF Contains(media_type, <<"v","i","d","e","o">>) THEN <<"m","p","4">>
    ELSE <<"j","p","g">>

\* The extension of the local file, from media_type (item["media_type"].lower())
\* and the URL.
Extension(media_type, url) ==
    IF Contains(media_type, <<"v","i","d","e","o">>) THEN <<"m","p","4">>
    ELSE IF Contains(media_type, <<"i","m","a","g","e">>) \/ Contains(media_type, <<"p","h","o","t","o">>) THEN <<"j","p","g">>
    ELSE LET url_lower == Lower(url) IN
         IF Contains(url_lower, <<".","m","p","4">>) THEN <<"m","p","4">>
         ELSE IF Contains(url_lower, <<".","m","o","v">>) THEN <<"m","o","v">>
         ELSE IF Contains(url_lower, <<".","j","p","g">>) \/ Contains(url_lower, <<".","j","p","e","g">>) THEN <<"j","p","g">>
         ELSE IF Contains(url_lower, <<".","p","n","g">>) THEN <<"p","n","g">>
         ELSE <<"j","p","g">>

\* Filename without the index: a fault C10 detects.
FilenameNoIndex(item, idx) ==
    StrftimeStamp(item.datetime) \o <<".">> \o Extension(Lower(item.media_type), item.url)

\* filename = f"{timestamp}_{idx:04d}.{ext}"
Filename(item, idx) ==
    StrftimeStamp(item.datetime) \o <<"_">> \o ZeroPad(idx, 4) \o <<".">>
    \o Extension(Lower(item.media_type), item.url)

\* relative_path = f"media/{filename}", the path of local_path under output_dir.
RelativePath(item, idx) == <<"m","e","d","i","a","/">> \o Filename(item, idx)

\* IsZip comparing the first two bytes only: a fault C7 detects.
IsZipByPK(content_type, data) ==
    \/ Contains(content_type, <<"z","i","p">>)
    \/ SubSeq(data, 1, IF Len(data) < 2 THEN Len(data) ELSE 2) = SubSeq(ZipMagic, 1, 2)

\* is_zip
IsZip(content_type, data) ==
    \/ Contains(content_type, <<"z","i","p">>)
    \/ SubSeq(data, 1, IF Len(data) < 4 THEN Len(data) ELSE 4) = ZipMagic

\* The extensions a fallback entry may end in.
MediaSuffixes == {<<".","m","p","4">>, <<".","m","o","v">>, <<".","j","p","g">>, <<".","j","p","e","g">>, <<".","p","n","g">>, <<".","h","e","i","c">>}

\* The first for name loop: the first name holding '-main.', or None.
RECURSIVE FirstMain(_, _)
FirstMain(names, k) ==
    IF k > Len(names) THEN None
    ELSE IF Contains(names[k], <<"-","m","a","i","n",".">>) THEN names[k]
    ELSE FirstMain(names, k + 1)

\* FirstNonOverlay without the test for overlays: a fault C6 detects.
RECURSIVE FirstMedia(_, _)
FirstMedia(names, k) ==
    IF k > Len(names) THEN None
    ELSE IF \E e \in MediaSuffixes : EndsWith(Lower(names[k]), e) THEN names[k]
    ELSE FirstMedia(names, k + 1)

\* The second for name loop: the first media file that is no overlay, or None.
RECURSIVE FirstNonOverlay(_, _)
FirstNonOverlay(names, k) ==
    IF k > Len(names) THEN None
    ELSE IF /\ ~Contains(names[k], <<"-","o","v","e","r","l","a","y">>)
            /\ ~Contains(Lower(names[k]), <<"o","v","e","r","l","a","y">>)
            /\ \E e \in MediaSuffixes : EndsWith(Lower(names[k]), e)
         THEN names[k]
    ELSE FirstNonOverlay(names, k + 1)

\* main_file after both loops.
MainFile(names) ==
    LET main_file == FirstMain(names, 1)
    IN  IF ~Truthy(main_file) THEN FirstNonOverlay(names, 1) ELSE main_file

\* zf.namelist()
Namelist(entries) == [k \in 1..Len(entries) |-> entries[k].name]

\* zf.read(name): the data of the entry of that name (the last one, were there
\* several).
ZipRead(entries, name) ==
    LET ks == {k \in 1..Len(entries) : entries[k].name = name}
    IN  entries[CHOOSE k \in ks : \A j \in ks : j <= k].data

\* What one pass of the try block does with a response, before the record is
\* counted: the bytes it writes (saved), or that it adds the record to failed.
\*   resp.error /= "": urlopen or read raised (URLError, TimeoutError, or
\*   another Exception); resp.zip is how zipfile reads resp.data: valid or not
\*   (BadZipFile), and its entries.
Resolve(resp) ==
    IF resp.error /= "" THEN [saved |-> FALSE, data |-> <<>>]
    ELSE IF IsZip(Lower(resp.content_type), resp.data) THEN
        IF ~resp.zip.valid THEN [saved |-> FALSE, data |-> <<>>]
        ELSE LET main_file == MainFile(Namelist(resp.zip.entries)) IN
             IF Truthy(main_file)
             THEN [saved |-> TRUE, data |-> ZipRead(resp.zip.entries, main_file)]
             ELSE [saved |-> FALSE, data |-> <<>>]
    ELSE [saved |-> TRUE, data |-> resp.data]

\* item_copy = item.copy(); item_copy["local_path"] = relative_path
ItemCopy(item, relative_path) ==
    [datetime   |-> item.datetime,
     date_str   |-> item.date_str,
     media_type |-> item.media_type,
     location   |-> item.location,
     url        |-> item.url,
     local_path |-> relative_path]

(***************************************************************************)
(* group_by_year_month                                                     *)
(***************************************************************************)

\* sorted(S, reverse=True) of a set of ints (the keys of a dict).
RECURSIVE SortedReverse(_)
SortedReverse(S) ==
    IF S = {} THEN <<>>
    ELSE LET top == CHOOSE x \in S : \A y \in S : y <= x
         IN  <<top>> \o SortedReverse(S \ {top})

\* Bucket by the month alone: a fault C3 detects.
BucketByMonth(items, year, month) ==
    SelectSeq(items, LAMBDA it : it.datetime.month = month)

\* grouped[year][month]: the items of that year and month, in input order.
Bucket(items, year, month) ==
    SelectSeq(items, LAMBDA it : it.datetime.year = year /\ it.datetime.month = month)

\* One step of a stable descending sort: x goes behind every item of sorted
\* that is not older than it.
RECURSIVE InsertReverse(_, _)
InsertReverse(sorted, x) ==
    IF sorted = <<>> THEN <<x>>
    ELSE IF DtLess(Head(sorted).datetime, x.datetime) THEN <<x>> \o sorted
    ELSE <<Head(sorted)>> \o InsertReverse(Tail(sorted), x)

\* SortItemsReverse leaving the items as they came: a fault C4 detects.
SortItemsKeepOrder(its) == its

\* sorted(items, key=lambda x: x["datetime"], reverse=True): newest first,
\* items of equal datetime in their order in items.
RECURSIVE SortItemsReverse(_)
SortItemsReverse(its) ==
    IF its = <<>> THEN <<>>
    ELSE InsertReverse(SortItemsReverse(SubSeq(its, 1, Len(its) - 1)), its[Len(its)])

\* ordered_months of one year.
OrderedMonths(its, year) ==
    LET keys == SortedReverse({its[k].datetime.month :
                                 k \in {k \in DOMAIN its : its[k].datetime.year = year}})
    IN  [j \in 1..Len(keys) |->
            [month |-> keys[j], items |-> SortItemsReverse(Bucket(its, year, keys[j]))]]

\* The OrderedDict returned: a sequence of years, each a sequence of months.
group_by_year_month(its) ==
    LET years == SortedReverse({its[k].datetime.year : k \in DOMAIN its})
    IN  [i \in 1..Len(years) |->
            [year |-> years[i], months |-> OrderedMonths(its, years[i])]]

(***************************************************************************)
(* build_html.  The page is a sequence: the characters of the interpolated  *)
(* values, and each piece of the template's markup as one element.         *)
(***************************************************************************)

\* 's' if n != 1 else ''
Plural(n) == IF n /= 1 THEN <<"s">> ELSE <<>>

\* IsVideo without .lower(): a fault C9 detects.
IsVideoCaseSensitive(item) == Contains(item.media_type, <<"v","i","d","e","o">>)

IsVideo(item) == Contains(Lower(item.media_type), <<"v","i","d","e","o">>)

RECURSIVE SumLen(_, _)
SumLen(months, k) ==
    IF k > Len(months) THEN 0 ELSE Len(months[k].items) + SumLen(months, k + 1)

RECURSIVE SumMonths(_, _)
SumMonths(g, k) ==
    IF k > Len(g) THEN 0 ELSE Len(g[k].months) + SumMonths(g, k + 1)

RECURSIVE SumItems(_, _)
SumItems(g, k) ==
    IF k > Len(g) THEN 0 ELSE SumLen(g[k].months, 1) + SumItems(g, k + 1)

HtmlHead(g) ==
    <<"<!DOCTYPE html>", "<div class='stats'>", "<div class='stat'>">>
    \o Dec(SumItems(g, 1)) \o <<" memories", "</div>", "<div class='stat'>">>
    \o Dec(Len(g)) \o <<" years", "</div>", "<div class='stat'>">>
    \o Dec(SumMonths(g, 1)) \o <<" months", "</div>", "</div>", "<main>">>

Card(item) ==
    LET date_label == StrftimeLabel(item.datetime) IN
    <<"<div class='card'>">>
    \o (IF IsVideo(item)
        THEN <<"<div class='type-badge'>", "Video", "</div>", "<video class='media' src='">>
             \o item.local_path \o <<"'>", "</video>">>
        ELSE <<"<div class='type-badge'>", "Photo", "</div>", "<img class='media' src='">>
             \o item.local_path \o <<"' alt='">> \o date_label \o <<"'>">>)
    \o <<"<div class='card-footer'>">> \o date_label \o <<"</div>", "</div>">>

RECURSIVE Cards(_, _)
Cards(its, k) == IF k > Len(its) THEN <<>> ELSE Card(its[k]) \o Cards(its, k + 1)

MonthSection(m) ==
    LET count == Len(m.items)
        vid_count == Cardinality({k \in DOMAIN m.items : IsVideo(m.items[k])})
        img_count == count - vid_count
    IN  <<"<div class='month'>", "<div class='month-title'>">> \o month_name[m.month]
        \o <<"</div>", "<div class='month-count'>">> \o Dec(count) \o <<" ","i","t","e","m">> \o Plural(count)
        \o <<"</div>", "<span class='badge'>">> \o Dec(vid_count) \o <<" ","v","i","d","e","o">> \o Plural(vid_count)
        \o <<"</span>", "<span class='badge'>">> \o Dec(img_count) \o <<" ","p","h","o","t","o">> \o Plural(img_count)
        \o <<"</span>", "<div class='grid'>">> \o Cards(m.items, 1) \o <<"</div>", "</div>">>

RECURSIVE MonthSections(_, _)
MonthSections(months, k) ==
    IF k > Len(months) THEN <<>>
    ELSE MonthSection(months[k]) \o MonthSections(months, k + 1)

YearSection(y) ==
    LET year_count == SumLen(y.months, 1) IN
    <<"<div class='year-group'>", "<div class='year-header'>">> \o Dec(y.year)
    \o <<"<div class='year-summary'>">> \o Dec(year_count) \o <<" ","s","n","a","p">> \o Plural(year_count)
    \o <<"&middot;">> \o Dec(Len(y.months)) \o <<" ","m","o","n","t","h">> \o Plural(Len(y.months))
    \o <<"</div>", "</div>">> \o MonthSections(y.months, 1) \o <<"</div>">>

RECURSIVE YearSections(_, _)
YearSections(g, k) ==
    IF k > Len(g) THEN <<>> ELSE YearSection(g[k]) \o YearSections(g, k + 1)

build_html(g) ==
    HtmlHead(g) \o YearSections(g, 1) \o <<"</main>", "<script>", "</script>", "</html>">>

(***************************************************************************)
(* The state of one run of main().                                         *)
(***************************************************************************)

VARIABLES
    file,        \* the input file: whether it exists, parses as JSON, and what it holds
    net,         \* the responses the servers may give to a request in this run
    timer,       \* the ticks the clock may advance by during one request
    pc,          \* where main() is
    exit_code,   \* the exit status, once pc = "exit"
    items,       \* load_memories: items, the "Saved Media" list
    lidx,        \* load_memories: idx, the next item
    normalized,  \* load_memories: normalized; then memories in main()
    idx,         \* download_media_files: idx, the next record
    downloaded,  \* download_media_files: downloaded; then downloaded_memories
    failed,      \* download_media_files: failed
    elapsed,     \* time.time() - start_time, in ticks of the clock
    media,       \* the files of media_dir: relative path -> bytes
    attempts,    \* the requests made so far, in order: idx, url and the response
    grouped,     \* main(): grouped
    html         \* memories_gallery.html, once written

vars == <<file, net, timer, pc, exit_code, items, lidx, normalized, idx, downloaded,
          failed, elapsed, media, attempts, grouped, html>>

\* The clock ticks counted: more of them are all the same to the program.
MaxElapsed == 1

\* if not json_path.exists(): sys.exit(1)
MainStart ==
    /\ pc = "main"
    /\ IF ~file.exists
       THEN pc' = "exit" /\ exit_code' = 1
       ELSE pc' = "load" /\ exit_code' = exit_code
    /\ UNCHANGED <<file, net, timer, items, lidx, normalized, idx, downloaded, failed,
                   elapsed, media, attempts, grouped, html>>

\* load_memories up to the loop.  json.load raises on a file that is not
\* JSON; nothing catches it and the interpreter exits with status 1.
LoadOpen ==
    /\ pc = "load"
    /\ IF ~file.valid_json
       THEN pc' = "exit" /\ exit_code' = 1 /\ items' = items
       ELSE /\ pc' = "load_loop"
            /\ exit_code' = exit_code
            /\ items' = IF file.has_saved_media THEN file.saved_media ELSE <<>>
    /\ lidx' = 0
    /\ normalized' = <<>>
    /\ UNCHANGED <<file, net, timer, idx, downloaded, failed, elapsed, media, attempts,
                   grouped, html>>

\* One pass of for idx, item in enumerate(items).
LoadItem ==
    /\ pc = "load_loop"
    /\ lidx < Len(items)
    /\ LET item == items[lidx + 1] IN
       normalized' = IF ItemKept(item)
                     THEN Append(normalized, NormalizedItem(item))
                     ELSE normalized
    /\ lidx' = lidx + 1
    /\ UNCHANGED <<file, net, timer, pc, exit_code, items, idx, downloaded, failed,
                   elapsed, media, attempts, grouped, html>>

\* return normalized; if not memories: sys.exit(1)
LoadReturn ==
    /\ pc = "load_loop"
    /\ lidx = Len(items)
    /\ IF normalized = <<>>
       THEN pc' = "exit" /\ exit_code' = 1
       ELSE pc' = "download" /\ exit_code' = exit_code
    /\ UNCHANGED <<file, net, timer, items, lidx, normalized, idx, downloaded, failed,
                   elapsed, media, attempts, grouped, html>>

\* download_media_files up to the loop: the lists are empty, the clock is read.
DownloadStart ==
    /\ pc = "download"
    /\ pc' = "download_loop"
    /\ idx' = 0
    /\ downloaded' = <<>>
    /\ failed' = <<>>
    /\ elapsed' = 0
    /\ UNCHANGED <<file, net, timer, exit_code, items, lidx, normalized, media, attempts,
                   grouped, html>>

\* One pass of for idx, item in enumerate(items): the request, the response
\* resp, and the clock, which advances by tick meanwhile (time.time() has a
\* finite resolution, and two readings of it may be equal).  After a saved
\* file the record is appended to downloaded; the progress line then divides
\* by the elapsed time (ZeroDivisionError when it is 0), inside the try whose
\* except Exception appends the record to failed.
DownloadItem ==
    /\ pc = "download_loop"
    /\ idx < Len(normalized)
    /\ \E resp \in net, tick \in timer :
        /\ LET item == normalized[idx + 1]
               relative_path == RelativePath(item, idx)
               got == Resolve(resp)
               raised == got.saved /\ (idx + 1) % ProgressEvery = 0 /\ elapsed + tick = 0
           IN  /\ attempts' = Append(attempts, [idx |-> idx, url |-> item.url, resp |-> resp])
               /\ media' = IF got.saved THEN (relative_path :> got.data) @@ media ELSE media
               /\ downloaded' = IF got.saved
                                THEN Append(downloaded, ItemCopy(item, relative_path))
                                ELSE downloaded
               /\ failed' = IF ~got.saved \/ raised THEN Append(failed, item) ELSE failed
        /\ elapsed' = IF elapsed + tick > MaxElapsed THEN MaxElapsed ELSE elapsed + tick
    /\ idx' = idx + 1
    /\ UNCHANGED <<file, net, timer, pc, exit_code, items, lidx, normalized, grouped, html>>

\* DownloadReturn without the test for an empty result: a fault C2 detects.
DownloadReturnUnguarded ==
    /\ pc = "download_loop"
    /\ idx = Len(normalized)
    /\ pc' = "group"
    /\ UNCHANGED <<file, net, timer, exit_code, items, lidx, normalized, idx, downloaded,
                   failed, elapsed, media, attempts, grouped, html>>

\* return downloaded; if not downloaded_memories: sys.exit(1)
DownloadReturn ==
    /\ pc = "download_loop"
    /\ idx = Len(normalized)
    /\ IF downloaded = <<>>
       THEN pc' = "exit" /\ exit_code' = 1
       ELSE pc' = "group" /\ exit_code' = exit_code
    /\ UNCHANGED <<file, net, timer, items, lidx, normalized, idx, downloaded, failed,
                   elapsed, media, attempts, grouped, html>>

\* grouped = group_by_year_month(downloaded_memories)
GroupStep ==
    /\ pc = "group"
    /\ grouped' = group_by_year_month(downloaded)
    /\ pc' = "render"
    /\ UNCHANGED <<file, net, timer, exit_code, items, lidx, normalized, idx, downloaded,
                   failed, elapsed, media, attempts, html>>

\* html = build_html(grouped); output_path.write_text(html); main returns.
RenderStep ==
    /\ pc = "render"
    /\ html' = build_html(grouped)
    /\ pc' = "exit"
    /\ exit_code' = 0
    /\ UNCHANGED <<file, net, timer, items, lidx, normalized, idx, downloaded, failed,
                   elapsed, media, attempts, grouped>>

Next ==
    \/ MainStart
    \/ LoadOpen
    \/ LoadItem
    \/ LoadReturn
    \/ DownloadStart
    \/ DownloadItem
    \/ DownloadReturn
    \/ GroupStep
    \/ RenderStep

(***************************************************************************)
(* The inputs of the runs checked: export files and server behaviours.     *)
(***************************************************************************)

MaxLoadItems == 2
MaxExtItems == 1
MaxFetchItems == 2
MaxGroupItems == 3

SeqsUpTo(S, n) == UNION {[1..k -> S] : k \in 0..n}

\* An item with no key the program reads.
Blank == [k \in ItemKeys |-> None]

Std(date, media_type, url) ==
    ("Date" :> date) @@ ("Media Type" :> media_type)
    @@ ("Media Download Url" :> url) @@ Blank

DateMayUtc == <<"2","0","2","3","-","0","5","-","0","1"," ","1","0",":","0","0",":","0","0"," ","U","T","C">>
DateJanUtc == <<"2","0","2","3","-","0","1","-","1","5"," ","0","9",":","3","0",":","0","0"," ","U","T","C">>
DateMayPlain == <<"2","0","2","3","-","0","5","-","0","1"," ","1","0",":","0","0",":","0","0">>
DateMayLong == <<"M","a","y"," ","0","1",","," ","2","0","2","3">>
DateOld == <<"2","0","2","2","-","0","1","-","1","5"," ","9",":","3","0",":","0","0">>
UrlA == <<"h","t","t","p","s",":","/","/","h","/","a">>
UrlB == <<"h","t","t","p","s",":","/","/","h","/","b">>

\* Items that differ in the spelling of their keys, in what they lack and in
\* the form of their date.
LoadItems ==
    { Std(DateMayUtc, <<"I","m","a","g","e">>, UrlA),
      ("date" :> DateJanUtc) @@ ("media_type" :> <<"V","i","d","e","o">>)
          @@ ("media_download_url" :> UrlB) @@ ("location" :> <<"1",".","5",","," ","2",".","5">>) @@ Blank,
      ("Date" :> DateMayPlain) @@ ("Media Download URL" :> UrlA) @@ Blank,
      ("Date" :> DateMayLong) @@ ("Download Link" :> UrlB) @@ Blank,
      ("date" :> DateOld) @@ ("download_link" :> UrlA) @@ Blank,
      ("Date" :> <<>>) @@ ("date" :> DateJanUtc) @@ ("Media Download Url" :> <<>>)
          @@ ("Download Link" :> UrlB) @@ Blank,
      ("Date" :> DateMayUtc) @@ ("date" :> DateJanUtc) @@ ("Media Download Url" :> UrlA)
          @@ ("download_link" :> UrlB) @@ Blank,
      ("Media Type" :> <<"I","m","a","g","e">>) @@ ("Media Download Url" :> UrlA) @@ Blank,
      ("Date" :> <<>>) @@ ("Media Download Url" :> UrlA) @@ Blank,
      ("Date" :> DateMayUtc) @@ ("Media Type" :> <<"I","m","a","g","e">>) @@ Blank,
      Std(<<"M","a","y"," ","0","1",","," ","2","0","2","3"," ","U","T","C">>, <<"I","m","a","g","e">>, UrlA),
      Std(<<"2","0","2","3","-","0","5","-","0","1"," ","1","0",":","0","0",":","0","0"," ","G","M","T">>, <<"I","m","a","g","e">>, UrlA),
      Std(<<"2","0","2","3","-","0","2","-","3","0"," ","1","0",":","0","0",":","0","0">>, <<"I","m","a","g","e">>, UrlA),
      Std(<<"2","0","2","3","-","0","5","-","0","1">>, <<"I","m","a","g","e">>, UrlA) }

ExtMediaTypes == {<<"V","i","d","e","o">>, <<"V","I","D","E","O">>, <<"I","m","a","g","e">>, <<"p","h","o","t","o">>, <<>>, <<"S","t","i","c","k","e","r">>}

ExtUrls == {<<"h","/","a",".","m","p","4">>, <<"h","/","a",".","M","O","V">>, <<"h","/","a",".","j","p","e","g">>, <<"h","/","a",".","p","n","g">>, <<"h","/","a">>,
            <<"h","/","a",".","m","p","4","?","s","=","1">>, <<"h","/","a",".","m","o","v",".","p","n","g">>, <<"h","/","a",".","j","p","g",".","m","o","v">>}

ExtItems == {Std(DateMayUtc, m, u) : m \in ExtMediaTypes, u \in ExtUrls}

FetchItem == Std(DateMayUtc, <<"I","m","a","g","e">>, UrlA)

\* Two records that differ, in each order, and twice the same.
FetchPairs == [1..2 -> {FetchItem, Std(DateJanUtc, <<"V","i","d","e","o">>, UrlB)}]

GroupItems ==
    { Std(DateMayUtc, <<"I","m","a","g","e">>, UrlA),
      Std(DateMayPlain, <<"V","i","d","e","o">>, UrlA),
      Std(DateMayLong, <<"I","m","a","g","e">>, UrlA),
      Std(DateJanUtc, <<"V","i","d","e","o">>, UrlA),
      Std(DateOld, <<"I","m","a","g","e">>, UrlA) }

NotZip == [valid |-> FALSE, entries |-> <<>>]

Archive(entries) == [valid |-> TRUE, entries |-> entries]

Entry(name, data) == [name |-> name, data |-> data]

Ok(content_type, data, zip) ==
    [error |-> "", content_type |-> content_type, data |-> data, zip |-> zip]

Raises(error) ==
    [error |-> error, content_type |-> <<>>, data |-> <<>>, zip |-> NotZip]

PlainJpeg == Ok(<<"i","m","a","g","e","/","j","p","e","g">>, <<255, 216, 255, 224, 16>>, NotZip)

UrlError == Raises("URLError")

\* What a server may answer: plain bodies, errors, and ZIP archives that are
\* well formed or not, announced by their content type or not.  The names of
\* the entries of an archive are distinct.
Responses ==
    { PlainJpeg,
      Ok(<<>>, <<1, 2>>, NotZip),
      Ok(<<"a","p","p","l","i","c","a","t","i","o","n","/","o","c","t","e","t","-","s","t","r","e","a","m">>, <<80, 75, 5, 6, 0>>, Archive(<<>>)),
      UrlError,
      Raises("TimeoutError"),
      Raises("Exception"),
      Ok(<<"a","p","p","l","i","c","a","t","i","o","n","/","z","i","p">>, <<80, 75, 3, 4, 1>>,
         Archive(<<Entry(<<"c","l","i","p","-","o","v","e","r","l","a","y",".","p","n","g">>, <<11>>), Entry(<<"c","l","i","p","-","m","a","i","n",".","m","p","4">>, <<12>>)>>)),
      Ok(<<"i","m","a","g","e","/","j","p","e","g">>, <<80, 75, 3, 4, 2>>,
         Archive(<<Entry(<<"a","-","o","v","e","r","l","a","y",".","j","p","g">>, <<21>>), Entry(<<"b",".","m","p","4">>, <<22>>)>>)),
      Ok(<<"a","p","p","l","i","c","a","t","i","o","n","/","z","i","p">>, <<80, 75, 3, 4, 3>>,
         Archive(<<Entry(<<"b",".","m","p","4">>, <<31>>), Entry(<<"x","-","m","a","i","n",".","t","x","t">>, <<32>>),
                   Entry(<<"y","-","m","a","i","n",".","m","p","4">>, <<33>>)>>)),
      Ok(<<"a","p","p","l","i","c","a","t","i","o","n","/","z","i","p">>, <<80, 75, 3, 4, 4>>,
         Archive(<<Entry(<<"n","o","t","e","s",".","t","x","t">>, <<41>>), Entry(<<"O","V","E","R","L","A","Y",".","P","N","G">>, <<42>>),
                   Entry(<<"c",".","H","E","I","C">>, <<43>>), Entry(<<"d",".","p","n","g">>, <<44>>)>>)),
      Ok(<<"a","p","p","l","i","c","a","t","i","o","n","/","z","i","p">>, <<80, 75, 3, 4, 5>>,
         Archive(<<Entry(<<"a","-","o","v","e","r","l","a","y",".","p","n","g">>, <<51>>), Entry(<<"r","e","a","d","m","e",".","t","x","t">>, <<52>>)>>)),
      Ok(<<"a","p","p","l","i","c","a","t","i","o","n","/","z","i","p">>, <<80, 75, 3, 4, 6>>, NotZip),
      Ok(<<"A","p","p","l","i","c","a","t","i","o","n","/","Z","I","P">>, <<255, 216, 255, 224, 17>>, NotZip) }

File(saved_media) ==
    [exists |-> TRUE, valid_json |-> TRUE, has_saved_media |-> TRUE,
     saved_media |-> saved_media]

\* The export of the end-to-end scenario.
ScenarioItems == <<Std(DateMayUtc, <<"I","m","a","g","e">>, UrlA), Std(DateJanUtc, <<"V","i","d","e","o">>, UrlB)>>

\* A run: the export file, the servers, and the clock.
Run(f, n, t) == [file |-> f, net |-> n, timer |-> t]

\* Files that do not exist, are not JSON, or hold no usable record, and
\* servers that answer nothing.
EdgeRuns ==
    {Run(f, n, {1}) :
        f \in { [File(<<>>) EXCEPT !.exists = FALSE],
                [File(<<>>) EXCEPT !.valid_json = FALSE],
                [File(<<>>) EXCEPT !.has_saved_media = FALSE],
                File(<<>>),
                File(<<Blank>>),
                File(ScenarioItems) },
        n \in {{UrlError}, {UrlError, PlainJpeg}}}

\* A batch long enough for the progress line, on a clock that may stand still.
LongRuns ==
    {Run(File([k \in 1..ProgressEvery |-> Std(DateMayUtc, <<"I","m","a","g","e">>, UrlA)]),
         {PlainJpeg}, {0, 1})}

Runs ==
    {Run(File(s), {PlainJpeg}, {1}) : s \in SeqsUpTo(LoadItems, MaxLoadItems)}
    \cup {Run(File(s), {PlainJpeg}, {1}) : s \in SeqsUpTo(ExtItems, MaxExtItems)}
    \cup {Run(File(s), Responses, {1}) : s \in SeqsUpTo({FetchItem}, MaxFetchItems)}
    \cup {Run(File(s), Responses, {1}) : s \in FetchPairs}
    \cup {Run(File(s), {PlainJpeg}, {1}) : s \in SeqsUpTo(GroupItems, MaxGroupItems)}
    \cup {Run(File(ScenarioItems), {PlainJpeg, Ok(<<>>, <<1, 2>>, NotZip)}, {0, 1})}
    \cup LongRuns
    \cup EdgeRuns

Init ==
    /\ \E run \in Runs : file = run.file /\ net = run.net /\ timer = run.timer
    /\ pc = "main"
    /\ exit_code = 0
    /\ items = <<>>
    /\ lidx = 0
    /\ normalized = <<>>
    /\ idx = 0
    /\ downloaded = <<>>
    /\ failed = <<>>
    /\ elapsed = 0
    /\ media = <<>>
    /\ attempts = <<>>
    /\ grouped = <<>>
    /\ html = <<>>

Spec == Init /\ [][Next]_vars

(***************************************************************************)
(* What the claims speak of, stated apart from the operators above.        *)
(***************************************************************************)

\* The records requested so far, by position 1..Len(attempts).
Attempted == 1..Len(attempts)

\* The local path of the k-th record of the run.
PathOf(k) == RelativePath(normalized[k], k - 1)

\* The k-th fetch succeeded: bytes to save came out of it.
Fetched(k) == Resolve(attempts[k].resp).saved

\* The members of a set of positions, in ascending order.
RECURSIVE Ascending(_)
Ascending(S) ==
    IF S = {} THEN <<>>
    ELSE LET low == CHOOSE x \in S : \A y \in S : x <= y
         IN  <<low>> \o Ascending(S \ {low})

\* A DownloadedRecord without its localPath.
WithoutPath(d) ==
    [datetime |-> d.datetime, date_str |-> d.date_str, media_type |-> d.media_type,
     location |-> d.location, url |-> d.url]

DownloadOver == pc \in {"group", "render", "exit"}

\* C1: download_media_files requests every record exactly once, in input
\* order, whatever the earlier fetches gave; the result sequence holds a copy
\* (with localPath) of exactly the records whose fetch succeeded, the failure
\* list exactly the others, so len(downloaded) + len(failed) = len(input).
C1_EachRecordOnceInOneList ==
    LET good == Ascending({k \in Attempted : Fetched(k)})
        bad == Ascending({k \in Attempted : ~Fetched(k)})
    IN  /\ Len(attempts) <= Len(normalized)
        /\ \A k \in Attempted :
              attempts[k].idx = k - 1 /\ attempts[k].url = normalized[k].url
        /\ DownloadOver => Len(attempts) = Len(normalized)
        /\ Len(downloaded) = Len(good)
        /\ \A j \in 1..Len(good) :
              j <= Len(downloaded) => WithoutPath(downloaded[j]) = normalized[good[j]]
        /\ Len(failed) = Len(bad)
        /\ \A j \in 1..Len(bad) : j <= Len(failed) => failed[j] = normalized[bad[j]]
        /\ Len(downloaded) + Len(failed) = Len(attempts)

\* The part of C1 the code keeps: one request per record, in order, and the
\* result sequence is the successes.
C1_RequestsAndResult ==
    LET good == Ascending({k \in Attempted : Fetched(k)})
    IN  /\ \A k \in Attempted :
              attempts[k].idx = k - 1 /\ attempts[k].url = normalized[k].url
        /\ DownloadOver => Len(attempts) = Len(normalized)
        /\ Len(downloaded) = Len(good)
        /\ \A j \in 1..Len(good) : WithoutPath(downloaded[j]) = normalized[good[j]]

\* C2: main exits with a non-zero status when the input file does not exist,
\* when the loader yields no record or when the fetcher yields no download,
\* and with status zero in every other case.
C2_ExitStatus ==
    pc = "exit" =>
        (exit_code /= 0 <=> (~file.exists \/ normalized = <<>> \/ downloaded = <<>>))

C2_Witness ==
    /\ pc = "exit"
    /\ exit_code = 1
    /\ file.exists
    /\ normalized /= <<>>
    /\ downloaded = <<>>
    /\ Len(attempts) = 2

\* The buckets of a GroupedIndex: year, month and items of each.
RECURSIVE BucketsOfYear(_, _)
BucketsOfYear(y, j) ==
    IF j > Len(y.months) THEN <<>>
    ELSE <<[year |-> y.year, month |-> y.months[j].month, items |-> y.months[j].items]>>
         \o BucketsOfYear(y, j + 1)

RECURSIVE Buckets(_, _)
Buckets(g, i) ==
    IF i > Len(g) THEN <<>> ELSE BucketsOfYear(g[i], 1) \o Buckets(g, i + 1)

Count(seq, x) == Cardinality({k \in DOMAIN seq : seq[k] = x})

RECURSIVE CountInBuckets(_, _, _)
CountInBuckets(bs, k, x) ==
    IF k > Len(bs) THEN 0 ELSE Count(bs[k].items, x) + CountInBuckets(bs, k + 1, x)

Grouped == pc = "render" \/ (pc = "exit" /\ exit_code = 0)

\* C3: group_by_year_month partitions its input: every record is in exactly
\* one (year, month) bucket, the bucket of its capturedAt; the buckets hold
\* the input's records and no other; no bucket is empty.
C3_GroupingIsPartition ==
    Grouped =>
        LET bs == Buckets(grouped, 1) IN
        /\ \A a, b \in DOMAIN bs :
              a /= b => <<bs[a].year, bs[a].month>> /= <<bs[b].year, bs[b].month>>
        /\ \A b \in DOMAIN bs :
              /\ bs[b].items /= <<>>
              /\ \A k \in DOMAIN bs[b].items :
                    /\ bs[b].items[k].datetime.year = bs[b].year
                    /\ bs[b].items[k].datetime.month = bs[b].month
                    /\ Count(downloaded, bs[b].items[k]) >= 1
        /\ \A k \in DOMAIN downloaded :
              CountInBuckets(bs, 1, downloaded[k]) = Count(downloaded, downloaded[k])

C3_Witness ==
    /\ pc = "render"
    /\ Len(downloaded) = 3
    /\ Len(Buckets(grouped, 1)) = 2
    /\ Len(grouped) = 2

\* C4: in the GroupedIndex the years are strictly descending, the months of
\* a year strictly descending, and the items of a month non-increasing by
\* capturedAt.
C4_GroupedOrder ==
    Grouped =>
        /\ \A i \in 1..(Len(grouped) - 1) : grouped[i].year > grouped[i + 1].year
        /\ \A i \in DOMAIN grouped :
              LET ms == grouped[i].months IN
              /\ \A j \in 1..(Len(ms) - 1) : ms[j].month > ms[j + 1].month
              /\ \A j \in DOMAIN ms :
                    \A k \in 1..(Len(ms[j].items) - 1) :
                        ~DtLess(ms[j].items[k].datetime, ms[j].items[k + 1].datetime)

C4_Witness ==
    /\ pc = "render"
    /\ \E i \in DOMAIN grouped :
          /\ Len(grouped[i].months) = 2
          /\ \E j \in DOMAIN grouped[i].months :
                LET its == grouped[i].months[j].items IN
                /\ Len(its) = 2
                /\ DtLess(its[2].datetime, its[1].datetime)
                /\ \E a, b \in DOMAIN downloaded :
                      a < b /\ downloaded[a] = its[2] /\ downloaded[b] = its[1]

\* The extension of a path: what follows its last '.'.
RECURSIVE AfterLastDot(_, _)
AfterLastDot(path, k) ==
    IF k = 0 THEN path
    ELSE IF path[k] = "." THEN SubSeq(path, k + 1, Len(path))
    ELSE AfterLastDot(path, k - 1)

ExtOf(path) == AfterLastDot(path, Len(path))

HasAny(text, words) == \E w \in words : Contains(Lower(text), w)

\* The URL patterns and their extensions, in priority order.
UrlPatterns == <<[pat |-> <<".","m","p","4">>, ext |-> <<"m","p","4">>], [pat |-> <<".","m","o","v">>, ext |-> <<"m","o","v">>],
                 [pat |-> <<".","j","p","g">>, ext |-> <<"j","p","g">>], [pat |-> <<".","j","p","e","g">>, ext |-> <<"j","p","g">>],
                 [pat |-> <<".","p","n","g">>, ext |-> <<"p","n","g">>]>>

\* The extension of the first pattern that Hit accepts, jpg if none does.
FirstPattern(Hit(_)) ==
    IF \E k \in DOMAIN UrlPatterns : Hit(UrlPatterns[k].pat)
    THEN UrlPatterns[CHOOSE k \in DOMAIN UrlPatterns :
                        /\ Hit(UrlPatterns[k].pat)
                        /\ \A j \in 1..(k - 1) : ~Hit(UrlPatterns[j].pat)].ext
    ELSE <<"j","p","g">>

\* The extension the rule gives, the URL read by its suffix (BySuffix) or by
\* the patterns it holds anywhere.
RuleExtension(media_type, url, BySuffix) ==
    IF HasAny(media_type, {<<"v","i","d","e","o">>}) THEN <<"m","p","4">>
    ELSE IF HasAny(media_type, {<<"i","m","a","g","e">>, <<"p","h","o","t","o">>}) THEN <<"j","p","g">>
    ELSE IF BySuffix THEN LET Ends(pat) == EndsWith(Lower(url), pat) IN FirstPattern(Ends)
    ELSE LET Holds(pat) == Contains(Lower(url), pat) IN FirstPattern(Holds)

\* C5 as claimed: the extension of a record's file follows from its media
\* type and URL alone: mp4 if the media type holds "video", else jpg if it
\* holds "image" or "photo", else by the URL's lowercased suffix (.mp4, .mov,
\* .jpg/.jpeg, .png), else jpg.
C5_ExtensionByUrlSuffix ==
    \A k \in DOMAIN downloaded :
        ExtOf(downloaded[k].local_path)
            = RuleExtension(downloaded[k].media_type, downloaded[k].url, TRUE)

\* C5 amended: as claimed, but the URL decides by the first of .mp4, .mov,
\* .jpg/.jpeg, .png that its lowercased text holds anywhere, not by its
\* suffix.
C5_ExtensionByUrlSubstring ==
    \A k \in DOMAIN downloaded :
        ExtOf(downloaded[k].local_path)
            = RuleExtension(downloaded[k].media_type, downloaded[k].url, FALSE)

C5_Witness ==
    \E k \in DOMAIN downloaded :
        /\ downloaded[k].media_type = <<>>
        /\ downloaded[k].url = <<"h","/","a",".","m","o","v",".","p","n","g">>
        /\ ExtOf(downloaded[k].local_path) = <<"m","o","v">>
        /\ downloaded[k].local_path \in DOMAIN media

\* The response of the k-th request came, and is taken for a ZIP.
TakenForZip(k) ==
    /\ attempts[k].resp.error = ""
    /\ \/ HasAny(attempts[k].resp.content_type, {<<"z","i","p">>})
       \/ (Len(attempts[k].resp.data) >= 4 /\ SubSeq(attempts[k].resp.data, 1, 4) = ZipMagic)

IsMainName(name) == Contains(name, <<"-","m","a","i","n",".">>)

IsPlainMediaName(name) ==
    /\ ~Contains(Lower(name), <<"o","v","e","r","l","a","y">>)
    /\ \E e \in {<<".","m","p","4">>, <<".","m","o","v">>, <<".","j","p","g">>, <<".","j","p","e","g">>, <<".","p","n","g">>, <<".","h","e","i","c">>} :
          EndsWith(Lower(name), e)

HasEntry(entries, Is(_)) == \E e \in DOMAIN entries : Is(entries[e].name)

\* The first entry, in archive order, whose name Is accepts.
FirstEntry(entries, Is(_)) ==
    entries[CHOOSE e \in DOMAIN entries :
                Is(entries[e].name) /\ \A d \in 1..(e - 1) : ~Is(entries[d].name)]

\* The k-th record is in the result sequence, its file holding data.
SavedAs(k, data) ==
    /\ PathOf(k) \in DOMAIN media
    /\ media[PathOf(k)] = data
    /\ \E j \in DOMAIN downloaded :
          downloaded[j].local_path = PathOf(k) /\ WithoutPath(downloaded[j]) = normalized[k]

\* The k-th record is in the failure list, and has no file and no result.
Dropped(k) ==
    /\ PathOf(k) \notin DOMAIN media
    /\ \E j \in DOMAIN failed : failed[j] = normalized[k]
    /\ \A j \in DOMAIN downloaded : downloaded[j].local_path /= PathOf(k)

C7_PlainBodySavedVerbatim ==
    \A k \in Attempted :
        (attempts[k].resp.error = "" /\ ~TakenForZip(k)) =>
            SavedAs(k, attempts[k].resp.data)

C7_Witness ==
    \E k \in Attempted :
        /\ attempts[k].resp.error = ""
        /\ attempts[k].resp.zip.valid
        /\ ~TakenForZip(k)
        /\ SavedAs(k, attempts[k].resp.data)

\* C10: no two records of a run get the same local path, so no file of the
\* run is overwritten by a later record, and the file a DownloadedRecord
\* names holds the bytes resolved from that record's own response.
C10_PathsDistinctFilesOwn ==
    /\ \A a, b \in DOMAIN normalized : a /= b => PathOf(a) /= PathOf(b)
    /\ LET good == Ascending({k \in Attempted : Fetched(k)}) IN
       \A j \in DOMAIN downloaded :
          j <= Len(good) =>
              /\ downloaded[j].local_path = PathOf(good[j])
              /\ downloaded[j].local_path \in DOMAIN media
              /\ media[downloaded[j].local_path] = Resolve(attempts[good[j]].resp).data

C10_Witness ==
    /\ Len(downloaded) = 2
    /\ WithoutPath(downloaded[1]) = WithoutPath(downloaded[2])
    /\ downloaded[1].local_path /= downloaded[2].local_path
    /\ media[downloaded[1].local_path] = <<12>>
    /\ media[downloaded[2].local_path] = <<1, 2>>

\* The spellings of the date key and of the URL key, in the order read.
DateKeys == <<"Date", "date">>
UrlKeys == <<"Media Download Url", "Media Download URL", "media_download_url",
             "Download Link", "download_link">>

Present(item, key) == item[key] /= None /\ item[key] /= <<>>

HasOne(item, keys) == \E k \in DOMAIN keys : Present(item, keys[k])

\* The value under the first spelling that has one.
FirstOf(item, keys) ==
    item[keys[CHOOSE k \in DOMAIN keys :
                 Present(item, keys[k]) /\ \A j \in 1..(k - 1) : ~Present(item, keys[j])]]

\* The date of text read by the first of the formats fmts that reads it.
ReadBy(text, fmts) ==
    strptime(text, fmts[CHOOSE f \in DOMAIN fmts :
                           strptime(text, fmts[f]).ok
                           /\ \A g \in 1..(f - 1) : ~strptime(text, fmts[g]).ok])

ReadableBy(text, fmts) == \E f \in DOMAIN fmts : strptime(text, fmts[f]).ok

\* The date text as the formats see it: as written (AsWritten), or with
\* every " UTC" taken out.
DateSeen(item, AsWritten) ==
    IF AsWritten THEN FirstOf(item, DateKeys)
    ELSE Replace(FirstOf(item, DateKeys), <<" ","U","T","C">>, <<>>)

FormatsSeen(AsWritten) ==
    IF AsWritten THEN DateFormats ELSE <<<<"%","Y","-","%","m","-","%","d"," ","%","H",":","%","M",":","%","S">>, <<"%","B"," ","%","d",","," ","%","Y">>>>

\* The loader holds (in the loop) and returns (pc = "download") exactly the
\* records read so far that have a date
\* and a URL and whose date one of the formats reads, in their order, each
\* with its date text, the date it encodes and its URL.
LoaderKeeps(AsWritten) ==
    LET Wanted(item) ==
            /\ HasOne(item, DateKeys)
            /\ HasOne(item, UrlKeys)
            /\ ReadableBy(DateSeen(item, AsWritten), FormatsSeen(AsWritten))
        kept == SelectSeq(SubSeq(items, 1, lidx), Wanted)
    IN  /\ Len(normalized) = Len(kept)
        /\ Len(items) - Len(normalized) >= 0
        /\ \A j \in DOMAIN normalized :
              /\ Truthy(normalized[j].url)
              /\ normalized[j].datetime.year >= 1
              /\ j <= Len(kept) =>
                    /\ normalized[j].date_str = FirstOf(kept[j], DateKeys)
                    /\ normalized[j].url = FirstOf(kept[j], UrlKeys)
                    /\ normalized[j].datetime
                          = DateOf(ReadBy(DateSeen(kept[j], AsWritten), FormatsSeen(AsWritten)))

RECURSIVE BadgeText(_, _)
BadgeText(page, p) ==
    IF p > Len(page) \/ page[p] = "</span>" THEN <<>>
    ELSE <<page[p]>> \o BadgeText(page, p + 1)

\* The texts of the badges of the page, in order.
Badges(page) ==
    LET at == Ascending({p \in DOMAIN page : page[p] = "<span class='badge'>"})
    IN  [b \in DOMAIN at |-> BadgeText(page, at[b] + 1)]

MonthBlocks(page) == Cardinality({p \in DOMAIN page : page[p] = "<div class='month'>"})

StartsWith(text, prefix) == MatchAt(text, 1, prefix)

\* The run of the end-to-end scenario, over: both records fetched, neither
\* response a ZIP.
ScenarioRan ==
    /\ file = File(ScenarioItems)
    /\ pc = "exit"
    /\ Len(attempts) = 2
    /\ \A k \in Attempted : attempts[k].resp.error = "" /\ ~TakenForZip(k)

ScenarioIndex ==
    /\ Len(grouped) = 1
    /\ grouped[1].year = 2023
    /\ [j \in DOMAIN grouped[1].months |-> grouped[1].months[j].month] = <<5, 1>>

\* C9 as claimed: in the scenario the GroupedIndex has the one year 2023 with
\* the months 5 and 1 in that order, and the page has two .month blocks whose
\* badges read "1 video", "0 photo" and "0 video", "1 photo" respectively.
C9_ScenarioBadgesVideoFirst ==
    ScenarioRan =>
        /\ ScenarioIndex
        /\ MonthBlocks(html) = 2
        /\ Len(Badges(html)) = 4
        /\ StartsWith(Badges(html)[1], <<"1"," ","v","i","d","e","o">>)
        /\ StartsWith(Badges(html)[2], <<"0"," ","p","h","o","t","o">>)
        /\ StartsWith(Badges(html)[3], <<"0"," ","v","i","d","e","o">>)
        /\ StartsWith(Badges(html)[4], <<"1"," ","p","h","o","t","o">>)

\* C9 amended: as claimed, but the badges follow the months: the block of
\* May (the image) reads "0 videos", "1 photo", the block of January (the
\* video) reads "1 video", "0 photos".
C9_ScenarioBadgesFollowMonths ==
    ScenarioRan =>
        /\ ScenarioIndex
        /\ exit_code = 0
        /\ MonthBlocks(html) = 2
        /\ Badges(html) = <<<<"0"," ","v","i","d","e","o","s">>, <<"1"," ","p","h","o","t","o">>, <<"1"," ","v","i","d","e","o">>, <<"0"," ","p","h","o","t","o","s">>>>

C9_Witness ==
    /\ ScenarioRan
    /\ Len(downloaded) = 2
    /\ MonthBlocks(html) = 2

====
